---- MODULE Spec2Model ----
(***************************************************************************)
(* Split-checkout server (Stripe + Shopify glue).  The repository holds    *)
(* six versions of the same Express server; each is modelled as a          *)
(* "variant" of one request state machine:                                 *)
(*   server_js   src/server.js                                             *)
(*   part_000    src/unnamed/part_000                                      *)
(*   part_001    src/unnamed/part_001                                      *)
(*   part_002a   src/unnamed/part_002, lines 1-69   (first server)         *)
(*   part_002b   src/unnamed/part_002, lines 71-398 (second server)        *)
(*   server_cjs  src/server.cjs                                            *)
(* A handler runs synchronously up to each await; every await of an        *)
(* external call (Stripe, Shopify) is a point where the call is logged and *)
(* the handler is suspended until the call returns or throws.              *)
(***************************************************************************)
EXTENDS Integers, Sequences, FiniteSets, TLC

(* ------------------------------ bounds --------------------------------- *)
MaxItems == 2
MaxCents == 2
MaxQty == 2

(* ------------------------- program constants --------------------------- *)
StubCardCents == 1000
StubCodCents == 500

Variants == {"server_js", "part_000", "part_001", "part_002a", "part_002b", "server_cjs"}
Reqs == {"r1", "r2"}

(* --------------------------- JavaScript values -------------------------- *)
(* A JSON field is undefined (absent), null or an integer; arithmetic      *)
(* yields integers or NaN.                                                 *)
Undef == [t |-> "undef", n |-> 0]
Null == [t |-> "null", n |-> 0]
NaN == [t |-> "nan", n |-> 0]
Num(i) == [t |-> "num", n |-> i]

\* Number(x): undefined -> NaN, null -> 0
Number(x) == IF x.t = "num" THEN x ELSE IF x.t = "null" THEN Num(0) ELSE NaN
\* Number.isFinite / !isNaN on the values above
isFinite(x) == x.t = "num"
\* a * b and a + b with ToNumber coercion and NaN propagation
MulNum(x, y) == IF isFinite(x) /\ isFinite(y) THEN Num(x.n * y.n) ELSE NaN
AddNum(x, y) == IF isFinite(x) /\ isFinite(y) THEN Num(x.n + y.n) ELSE NaN
Mul(a, b) == MulNum(Number(a), Number(b))
Add(a, b) == AddNum(Number(a), Number(b))
\* truthiness; x || d; x ?? d; x > 0; x < 0; x <= 0 (comparisons with NaN are false)
Truthy(x) == x.t = "num" /\ x.n # 0
OrElse(x, d) == IF Truthy(x) THEN x ELSE d
Coalesce(x, d) == IF x.t \in {"undef", "null"} THEN d ELSE x
Gt0(x) == x.t = "num" /\ x.n > 0
Lt0(x) == x.t = "num" /\ x.n < 0
Le0(x) == x.t = "num" /\ x.n <= 0

(* ------------------------------ cart items ----------------------------- *)
CentVals == {Undef, Null} \cup {Num(i) : i \in -1..MaxCents}
QtyVals == {Undef} \cup {Num(i) : i \in -1..MaxQty}
PayMethods == {"card", "cod", "other"}
VariantIds == {Undef, Num(1)}

\* one item with every mix of the three price fields
RichItems == [variant_id : VariantIds, qty : QtyVals, line_total_cents : CentVals,
              unit_price_cents : CentVals, price_cents : CentVals, pay_method : PayMethods]
\* items of a multi-line cart: the legacy price field only
CartItems == [variant_id : VariantIds, qty : QtyVals \ {Num(-1)}, line_total_cents : {Undef},
              unit_price_cents : {Undef}, price_cents : {Undef} \cup {Num(i) : i \in 0..MaxCents},
              pay_method : PayMethods]

\* the lines of a cart sent to /checkout/confirm
ConfirmItems == [variant_id : VariantIds, qty : {Undef, Num(0), Num(1)},
                 line_total_cents : {Undef}, unit_price_cents : {Undef},
                 price_cents : {Num(1)}, pay_method : PayMethods]

ListsOver(D, n) == UNION {[1..k -> D] : k \in 0..n}

\* req.body.items: an array, missing, or a non-array (a non-iterable object)
ItemsField(lists) == [kind : {"array"}, list : lists]
                     \cup {[kind |-> "missing", list |-> <<>>], [kind |-> "nonarray", list |-> <<>>]}

(* ------------------------------- state --------------------------------- *)
VARIABLES
  variant,   \* which server file is deployed
  env,       \* process.env as read at start-up
  pc,        \* per request: where its handler is suspended
  ep,        \* per request: the route
  body,      \* per request: req.body
  loc,       \* per request: the handler's local variables
  calls,     \* per request: the external calls it issued, in order
  resp       \* per request: the response sent

vars == <<variant, env, pc, ep, body, loc, calls, resp>>

NoResp == [sent |-> FALSE, status |-> 0, ok |-> "none", error |-> "",
           payment_intent_id |-> "", client_secret |-> "",
           has_amounts |-> FALSE, card_cents |-> Undef, cod_cents |-> Undef,
           paid_order |-> FALSE, cod_order |-> FALSE, received |-> FALSE]

NoLoc == [email |-> "", card_cents |-> Undef, cod_cents |-> Undef, subs |-> <<>>,
          card |-> <<>>, cod |-> <<>>, orders |-> <<>>,
          paid_order |-> FALSE, cod_order |-> FALSE]

NoBody == [stripe_payment_intent_id |-> "", email |-> "",
           items |-> [kind |-> "missing", list |-> <<>>]]

\* one logged external call
Call(api, amount, meta_cod, fin, lines) ==
  [api |-> api, amount |-> amount, meta_cod |-> meta_cod, financial_status |-> fin,
   lines |-> lines, outcome |-> "pending", status |-> "", customers |-> <<>>]

\* res.status(st).json({ok, error})
ErrorResp(st, ok, err) == [NoResp EXCEPT !.sent = TRUE, !.status = st, !.ok = ok, !.error = err]

(* --------------------- POST /checkout/create: totals -------------------- *)
\* arr.map(f)
MapSeq(list, f(_)) == [i \in 1..Len(list) |-> f(list[i])]
RECURSIVE SumFrom(_, _, _)
\* vals.reduce((sum, v) => sum + v, start), left to right
SumFrom(vals, i, acc) == IF i > Len(vals) THEN acc ELSE SumFrom(vals, i + 1, Add(acc, vals[i]))
SumSeq(list, f(_)) == SumFrom(MapSeq(list, f), 1, Num(0))

IsCard(it) == it.pay_method = "card"
IsCod(it) == it.pay_method = "cod"

\* server.js / part_000: sum + (it.price_cents * it.qty)
calcTotalsTerm(it) == Mul(it.price_cents, it.qty)
calcTotals(items) == SumSeq(items, calcTotalsTerm)

\* part_001
toInt(n) == IF isFinite(Number(n)) THEN Number(n) ELSE Num(0)
splitItemsKeep(it) == Truthy(it.variant_id) /\ Truthy(it.qty)
splitItemsNorm(it) ==
  [variant_id |-> Number(it.variant_id), qty |-> Number(it.qty),
   line_total_cents |-> Undef, unit_price_cents |-> Undef,
   price_cents |-> toInt(it.price_cents),
   pay_method |-> IF it.pay_method = "cod" THEN "cod" ELSE "card"]
IsNotCod(it) == ~IsCod(it)
splitItemsPush(norm) == [card |-> SelectSeq(norm, IsNotCod), cod |-> SelectSeq(norm, IsCod)]
splitItems(items) == splitItemsPush(MapSeq(SelectSeq(items, splitItemsKeep), splitItemsNorm))
sumCentsTerm(l) == Mul(toInt(l.price_cents), toInt(l.qty))
sumCents(lines) == SumSeq(lines, sumCentsTerm)

LoopStart == [ok |-> TRUE, card_cents |-> Num(0), cod_cents |-> Num(0), subs |-> <<>>]

\* if (String(it.pay_method) === 'cod') cod_cents += subtotal; else card_cents += subtotal;
addToBranch(acc, it, subtotal) ==
  [acc EXCEPT !.subs = Append(@, subtotal),
              !.cod_cents = IF IsCod(it) THEN Add(@, subtotal) ELSE @,
              !.card_cents = IF IsCod(it) THEN @ ELSE Add(@, subtotal)]

\* part_002 (second server), lines 114-123: the loop over items, stopping at the
\* first invalid item
RECURSIVE p2bLoop(_, _, _)
p2bItem(list, i, acc, qty, price_cents) ==
  IF ~isFinite(qty) \/ ~isFinite(price_cents) \/ Lt0(price_cents)
  THEN [acc EXCEPT !.ok = FALSE]
  ELSE p2bLoop(list, i + 1, addToBranch(acc, list[i], Mul(qty, price_cents)))
p2bLoop(list, i, acc) ==
  IF i > Len(list) THEN acc
  ELSE p2bItem(list, i, acc, Number(OrElse(list[i].qty, Num(1))),
               Number(OrElse(list[i].price_cents, Num(0))))

\* server.cjs, lines 133-148: the subtotal of one item
cjsQty(it) == Number(OrElse(it.qty, Num(1)))
\* if (!Number.isFinite(subtotal)) { const v = Number(field); if (Number.isFinite(v)) subtotal = v * qty; }
cjsFallback(subtotal, v, qty) == IF ~isFinite(subtotal) /\ isFinite(v) THEN Mul(v, qty) ELSE subtotal
\* the fallback chain with the two lower priorities exchanged (legacy price before unit price)
cjsSubtotalLegacyFirst(it) ==
  cjsFallback(cjsFallback(Number(it.line_total_cents), Number(it.price_cents), cjsQty(it)),
              Number(it.unit_price_cents), cjsQty(it))
cjsSubtotal(it) ==
  cjsFallback(cjsFallback(Number(it.line_total_cents), Number(it.unit_price_cents), cjsQty(it)),
              Number(it.price_cents), cjsQty(it))

\* server.cjs, lines 132-156: the loop over items, stopping at the first invalid item
RECURSIVE cjsLoop(_, _, _)
cjsItem(list, i, acc, subtotal) ==
  IF ~isFinite(subtotal) \/ Lt0(subtotal)
  THEN [acc EXCEPT !.ok = FALSE, !.subs = Append(@, subtotal)]
  ELSE cjsLoop(list, i + 1, addToBranch(acc, list[i], subtotal))
cjsLoop(list, i, acc) ==
  IF i > Len(list) THEN acc ELSE cjsItem(list, i, acc, cjsSubtotal(list[i]))

\* What the synchronous part of POST /checkout/create decides: reject (with a
\* status and an error code), or the two totals and whether Stripe is called.
Plan(reject, status, ok, card, cod, subs, callPi, meta) ==
  [reject |-> reject, status |-> status, ok |-> ok, card_cents |-> card, cod_cents |-> cod,
   subs |-> subs, callPi |-> callPi, meta_cod |-> meta]
Rejected(status, ok, err) == Plan(err, status, ok, Undef, Undef, <<>>, FALSE, Undef)

\* the items after the destructuring default `items = []`
Defaulted(items) == IF items.kind = "missing" THEN [kind |-> "array", list |-> <<>>] ELSE items

\* server.js and part_000, lines 49-72
jsSplit(cardItems, cardTotals, codTotals) ==
  Plan("", 200, "true", cardTotals, codTotals, <<>>,
       Len(cardItems) > 0 /\ Gt0(cardTotals), Undef)
createPlan_js(b) ==
  IF b.items.kind # "array" \/ Len(b.items.list) = 0
  THEN Rejected(400, "none", "No items provided")
  ELSE jsSplit(SelectSeq(b.items.list, IsCard), calcTotals(SelectSeq(b.items.list, IsCard)),
               calcTotals(SelectSeq(b.items.list, IsCod)))

\* part_001, lines 93-123
p1Totals(e, card_cents, cod_cents) ==
  IF Le0(card_cents)
  THEN Plan("", 200, "true", card_cents, cod_cents, <<>>, FALSE, Undef)
  ELSE IF ~e.STRIPE_SECRET_KEY
  THEN Plan("Missing STRIPE_SECRET_KEY", 400, "false", card_cents, cod_cents, <<>>, FALSE, Undef)
  ELSE Plan("", 200, "true", card_cents, cod_cents, <<>>, TRUE, cod_cents)
p1Split(e, sp) == p1Totals(e, sumCents(sp.card), sumCents(sp.cod))
createPlan_p1(b, e) ==
  IF Defaulted(b.items).kind # "array"
  THEN Rejected(500, "false", "exception")       \* items.filter is not a function
  ELSE p1Split(e, splitItems(b.items.list))

\* part_002 (first server), lines 28-36
createPlan_p2a(b) ==
  Plan("", 200, "true", Num(StubCardCents), Num(StubCodCents), <<>>, TRUE, Undef)

\* part_002 (second server), lines 109-136
p2bTotals(t) ==
  IF ~t.ok THEN Plan("Invalid item data", 400, "false", t.card_cents, t.cod_cents, t.subs, FALSE, Undef)
  ELSE Plan("", 200, "true", t.card_cents, t.cod_cents, t.subs, Gt0(t.card_cents), t.cod_cents)
createPlan_p2b(b) ==
  IF Defaulted(b.items).kind # "array"
  THEN Rejected(500, "false", "exception")       \* items is not iterable
  ELSE p2bTotals(p2bLoop(b.items.list, 1, LoopStart))

\* server.cjs, lines 125-175
cjsTotals(t) ==
  IF ~t.ok THEN Plan("invalid_item", 400, "false", t.card_cents, t.cod_cents, t.subs, FALSE, Undef)
  ELSE Plan("", 200, "true", t.card_cents, t.cod_cents, t.subs,
            Gt0(t.card_cents), OrElse(t.cod_cents, Num(0)))
createPlan_cjs(b) ==
  IF Defaulted(b.items).kind # "array" \/ Len(b.items.list) = 0
  THEN Rejected(400, "false", "no_items")
  ELSE cjsTotals(cjsLoop(b.items.list, 1, LoopStart))

createPlan(v, b, e) ==
  CASE v \in {"server_js", "part_000"} -> createPlan_js(b)
    [] v = "part_001" -> createPlan_p1(b, e)
    [] v = "part_002a" -> createPlan_p2a(b)
    [] v = "part_002b" -> createPlan_p2b(b)
    [] v = "server_cjs" -> createPlan_cjs(b)

(* ------------------------- handler step helpers ------------------------- *)
\* the handler of r sends its response and ends
Finish(r, cl, lc, rs) ==
  /\ pc' = [pc EXCEPT ![r] = "done"]
  /\ calls' = [calls EXCEPT ![r] = cl]
  /\ loc' = [loc EXCEPT ![r] = lc]
  /\ resp' = [resp EXCEPT ![r] = rs]
  /\ UNCHANGED <<variant, env, ep, body>>

\* the handler of r issues an external call and is suspended at `at`
Await(r, at, cl, lc) ==
  /\ pc' = [pc EXCEPT ![r] = at]
  /\ calls' = [calls EXCEPT ![r] = cl]
  /\ loc' = [loc EXCEPT ![r] = lc]
  /\ UNCHANGED <<variant, env, ep, body, resp>>

\* the last call of the log returns (or throws)
Returned(cl, out, st, cust) ==
  [cl EXCEPT ![Len(cl)] = [@ EXCEPT !.outcome = out, !.status = st, !.customers = cust]]

\* the response of each server's catch block
catchResp(v, route) ==
  CASE v = "server_js" -> ErrorResp(500, "none", "server_error")
    [] v = "part_000" -> IF route = "confirm" THEN ErrorResp(400, "false", "exception")
                         ELSE ErrorResp(500, "none", "server_error")
    [] v = "part_001" -> IF route = "confirm" THEN ErrorResp(400, "false", "exception")
                         ELSE ErrorResp(500, "false", "exception")
    [] OTHER -> ErrorResp(500, "false", "exception")

(* ------------------- POST /checkout/create: the handler ----------------- *)
PiId == "pi_1"
PiSecret == "cs_1"

createOk(lc, id, secret) ==
  [NoResp EXCEPT !.sent = TRUE, !.status = 200, !.ok = "true",
                 !.payment_intent_id = id, !.client_secret = secret,
                 !.has_amounts = TRUE, !.card_cents = lc.card_cents, !.cod_cents = lc.cod_cents]

\* from the split to the call of stripe.paymentIntents.create (or the response)
createApply(r, cl, pl, lc) ==
  IF pl.reject # ""
  THEN Finish(r, cl, lc, ErrorResp(pl.status, pl.ok, pl.reject))
  ELSE IF pl.callPi
  THEN Await(r, "await_pi_create",
             Append(cl, Call("pi_create", pl.card_cents, pl.meta_cod, "", <<>>)), lc)
  ELSE Finish(r, cl, lc, createOk(lc, "null", "null"))
createLocals(r, cl, pl) ==
  createApply(r, cl, pl, [loc[r] EXCEPT !.card_cents = pl.card_cents,
                                        !.cod_cents = pl.cod_cents, !.subs = pl.subs])
createTotals(r, cl) == createLocals(r, cl, createPlan(variant, body[r], env))

(* ------------------ POST /checkout/confirm: the orders ------------------ *)
PiStatuses == {"succeeded", "requires_payment_method", "processing"}

Line(variant_id, quantity, title) == [variant_id |-> variant_id, quantity |-> quantity, title |-> title]
Order(fin, lines) == [financial_status |-> fin, lines |-> lines]

\* server.js, lines 105-108
toLineItems(i) == Line(i.variant_id, i.qty, "")
\* part_000, lines 104-108
toLine(it) == Line(Number(it.variant_id), Number(it.qty), "")
\* part_001, lines 60-65
toShopifyLine(it) == Line(Number(it.variant_id), Number(it.qty), "")
\* part_002 lines 176-186 and server.cjs lines 218-226
cjsLine(it) ==
  IF Truthy(it.variant_id) THEN Line(Number(it.variant_id), Coalesce(it.qty, Num(1)), "")
  ELSE Line(Undef, Coalesce(it.qty, Num(1)), "Article")
PlaceholderLine == Line(Undef, Num(1), "Paiement carte (Stripe)")
cjsLines(list) == IF Len(list) > 0 THEN MapSeq(list, cjsLine) ELSE <<PlaceholderLine>>

\* part_000, lines 101-102
p0Card(i) == IsCard(i) /\ Gt0(i.qty)
p0Cod(i) == IsCod(i) /\ Gt0(i.qty)

\* `if (cardItems.length) {...paid...}  if (codItems.length) {...pending...}`
OrderIf(lines, fin) == IF Len(lines) > 0 THEN <<Order(fin, lines)>> ELSE <<>>
TwoOrders(cardLines, codLines) == OrderIf(cardLines, "paid") \o OrderIf(codLines, "pending")
p1Orders(sp) == TwoOrders(MapSeq(sp.card, toShopifyLine), MapSeq(sp.cod, toShopifyLine))

\* the orders the handler goes on to submit, in order
confirmOrders(v, list) ==
  CASE v = "server_js" -> TwoOrders(MapSeq(SelectSeq(list, IsCard), toLineItems),
                                    MapSeq(SelectSeq(list, IsCod), toLineItems))
    [] v = "part_000" -> TwoOrders(MapSeq(SelectSeq(list, p0Card), toLine),
                                   MapSeq(SelectSeq(list, p0Cod), toLine))
    [] v = "part_001" -> p1Orders(splitItems(list))
    [] v = "part_002a" -> <<>>
    [] v \in {"part_002b", "server_cjs"} -> <<Order("paid", cjsLines(list))>>

\* `items.filter` on something that has no filter method
itemsThrow(v, items) ==
  CASE v = "server_js" -> items.kind # "array"
    [] v \in {"part_000", "part_001"} -> items.kind = "nonarray"
    [] OTHER -> FALSE

confirmOk(lc) ==
  [NoResp EXCEPT !.sent = TRUE, !.status = 200, !.ok = "true",
                 !.paid_order = lc.paid_order, !.cod_order = lc.cod_order]

\* the response to a retrieved status other than 'succeeded'
notSucceeded(v) ==
  CASE v = "server_js" -> ErrorResp(400, "none", "payment_not_succeeded")
    [] v = "part_002a" -> ErrorResp(400, "false", "payment not succeeded")
    [] v = "server_cjs" -> ErrorResp(400, "false", "pi_not_succeeded")
    [] OTHER -> ErrorResp(400, "false", "PaymentIntent not succeeded")

\* submit the next order of the list, or answer ok when none is left
submit(r, cl, lc, orders) ==
  IF Len(orders) = 0 THEN Finish(r, cl, lc, confirmOk(lc))
  ELSE Await(r, "await_order",
             Append(cl, Call("order_create", Undef, Undef,
                             orders[1].financial_status, orders[1].lines)),
             [lc EXCEPT !.orders = Tail(orders)])

\* from the end of the retrieve step to the first order call
afterRetrieve(r, cl) ==
  IF itemsThrow(variant, body[r].items)
  THEN Finish(r, cl, loc[r], catchResp(variant, "confirm"))
  ELSE submit(r, cl, loc[r], confirmOrders(variant, body[r].items.list))

confirmRetrieve(r, cl) ==
  Await(r, "await_pi_retrieve", Append(cl, Call("pi_retrieve", Undef, Undef, "", <<>>)), loc[r])

\* `created.paid_order = ...` / `created.cod_order = ...`; part_002 and server.cjs
\* answer with Shopify's own body instead
created(v, lc, fin) ==
  IF v \in {"part_002b", "server_cjs"} THEN lc
  ELSE IF fin = "paid" THEN [lc EXCEPT !.paid_order = TRUE]
  ELSE [lc EXCEPT !.cod_order = TRUE]

(* ------------------------- POST /checkout/cod --------------------------- *)
\* the server files that register the route
CodVariants == {"part_002b", "server_cjs"}

\* part_002, lines 258-262
p2bCodLine(it) == Line(Undef, OrElse(it.qty, Num(1)), "Article COD")
CodPlaceholder == Line(Undef, Num(1), "Paiement a la livraison")
p2bCodLines(list) == IF Len(list) > 0 THEN MapSeq(list, p2bCodLine) ELSE <<CodPlaceholder>>
\* server.cjs, lines 297-317
cjsCodLine(it) ==
  IF Truthy(it.variant_id) THEN Line(Number(it.variant_id), Number(OrElse(it.qty, Num(1))), "")
  ELSE Line(Undef, Number(OrElse(it.qty, Num(1))), "Article")

\* server.cjs line 322 reads `amount_cents`, which no scope of the handler declares:
\* the branch taken without items throws a ReferenceError
cjsCodThrows(items) == ~(items.kind = "array" /\ Len(items.list) > 0)

\* from the gate (or the start) to the order call
codSubmit(r, cl) ==
  IF variant = "server_cjs"
  THEN IF cjsCodThrows(body[r].items)
       THEN Finish(r, cl, loc[r], catchResp(variant, "cod"))
       ELSE submit(r, cl, loc[r], <<Order("pending", MapSeq(body[r].items.list, cjsCodLine))>>)
  ELSE submit(r, cl, loc[r], <<Order("pending", p2bCodLines(body[r].items.list))>>)

(* ------------------------ server.cjs: the gate -------------------------- *)
OtherEmail == "b@shop.test"
Emails == {"", "a@shop.test"}
MaxCustomers == 2
Customers == [email : {"a@shop.test", OtherEmail}, split : BOOLEAN]

\* what runs once the gate has let the request through
afterGate(r, cl) ==
  CASE ep[r] = "create" -> createTotals(r, cl)
    [] ep[r] = "confirm" -> confirmRetrieve(r, cl)
    [] ep[r] = "cod" -> codSubmit(r, cl)

\* isCustomerAllowed, lines 89-94, on the customers the search returned
tagOf(customers, hits) == IF Len(hits) > 0 THEN hits[1].split ELSE customers[1].split
\* a gate that lets a search without results through
tagAllowsEmptyOk(customers, email) ==
  IF Len(customers) = 0 THEN TRUE
  ELSE tagOf(customers, SelectSeq(customers, LAMBDA c : c.email = email))

tagAllows(customers, email) ==
  IF Len(customers) = 0 THEN FALSE
  ELSE tagOf(customers, SelectSeq(customers, LAMBDA c : c.email = email))

\* requireAuthOr403 (lines 101-107) and isCustomerAllowed (lines 76-88) up to the
\* customer search
gateOnlyLogin(r, email, lc) ==
  IF env.REQUIRE_LOGIN /\ email = ""
  THEN Finish(r, calls[r], lc, ErrorResp(403, "false", "login_required"))
  ELSE afterGate(r, calls[r])
gateWith(r, email, lc) ==
  IF env.REQUIRE_LOGIN /\ email = ""
  THEN Finish(r, calls[r], lc, ErrorResp(403, "false", "login_required"))
  ELSE IF email = "" /\ ~(~env.REQUIRE_LOGIN /\ ~env.REQUIRE_SPLIT_TAG)
  THEN Finish(r, calls[r], lc, ErrorResp(403, "false", "not_authorized"))
  ELSE IF email # "" /\ env.REQUIRE_SPLIT_TAG
  THEN Await(r, "await_customer",
             Append(calls[r], Call("customer_search", Undef, Undef, "", <<>>)), lc)
  ELSE afterGate(r, calls[r])
gate(r) == gateWith(r, body[r].email, [loc[r] EXCEPT !.email = body[r].email])

(* ------------------------------- actions -------------------------------- *)
EnvOf(v) ==
  [REQUIRE_LOGIN : IF v = "server_cjs" THEN BOOLEAN ELSE {FALSE},
   REQUIRE_SPLIT_TAG : IF v = "server_cjs" THEN BOOLEAN ELSE {FALSE},
   STRIPE_SECRET_KEY : IF v = "part_001" THEN BOOLEAN ELSE {TRUE},
   SHOPIFY : IF v = "part_001" THEN BOOLEAN ELSE {TRUE}]

Init ==
  /\ variant \in Variants
  /\ env \in EnvOf(variant)
  /\ pc = [r \in Reqs |-> "idle"]
  /\ ep = [r \in Reqs |-> ""]
  /\ body = [r \in Reqs |-> NoBody]
  /\ loc = [r \in Reqs |-> NoLoc]
  /\ calls = [r \in Reqs |-> <<>>]
  /\ resp = [r \in Reqs |-> NoResp]

\* the deployments whose gate needs no customer search
InitNoTag == Init /\ ~env.REQUIRE_SPLIT_TAG

\* only server.cjs reads customer.email before it answers
EmailsOf(v) == IF v = "server_cjs" THEN Emails ELSE {"a@shop.test"}

Receive(r, route, b) ==
  /\ pc[r] = "idle"
  /\ pc' = [pc EXCEPT ![r] = "start"]
  /\ ep' = [ep EXCEPT ![r] = route]
  /\ body' = [body EXCEPT ![r] = b]
  /\ UNCHANGED <<variant, env, loc, calls, resp>>

\* a cart of up to MaxItems lines
ReceiveCreate(r) ==
  /\ pc[r] = "idle"
  /\ \E em \in EmailsOf(variant), items \in ItemsField(ListsOver(CartItems, MaxItems)) :
    Receive(r, "create", [stripe_payment_intent_id |-> "", email |-> em, items |-> items])

\* a cart of at most one line, with any mix of the price fields
ReceiveCreateOne(r) ==
  /\ pc[r] = "idle"
  /\ \E list \in ListsOver(RichItems, 1) :
    Receive(r, "create", [stripe_payment_intent_id |-> "", email |-> "a@shop.test",
                          items |-> [kind |-> "array", list |-> list]])

CreateBegin(r) ==
  /\ pc[r] = "start" /\ ep[r] = "create"
  /\ IF variant = "server_cjs" THEN gate(r) ELSE createTotals(r, calls[r])

\* the customer search of isCustomerAllowed returns or throws
CustomerSearchReturns(r) ==
  /\ pc[r] = "await_customer"
  /\ \E out \in {"ok", "throw"}, cust \in ListsOver(Customers, MaxCustomers) :
       /\ out = "throw" => cust = <<>>
       /\ IF out = "ok" /\ tagAllows(cust, loc[r].email)
          THEN afterGate(r, Returned(calls[r], out, "", cust))
          ELSE Finish(r, Returned(calls[r], out, "", cust), loc[r],
                      ErrorResp(403, "false", "not_authorized"))

\* stripe.paymentIntents.create returns or throws
PiCreateReturns(r) ==
  /\ pc[r] = "await_pi_create"
  /\ \E out \in {"ok", "throw"} :
       Finish(r, Returned(calls[r], out, "", <<>>), loc[r],
              IF out = "ok" THEN createOk(loc[r], PiId, PiSecret)
              ELSE catchResp(variant, "create"))

\* a confirmation of a cart of up to MaxItems lines, with or without the intent id
ReceiveConfirm(r) ==
  /\ pc[r] = "idle"
  /\ \E id \in {"", PiId}, em \in EmailsOf(variant),
        items \in ItemsField(ListsOver(ConfirmItems, MaxItems)) :
    Receive(r, "confirm", [stripe_payment_intent_id |-> id, email |-> em, items |-> items])

MissingId(r) == body[r].stripe_payment_intent_id = ""
Reject(r, st, err) == Finish(r, calls[r], loc[r], ErrorResp(st, "false", err))

\* the handler up to its first await
ConfirmBegin(r) ==
  /\ pc[r] = "start" /\ ep[r] = "confirm"
  /\ CASE variant = "server_js" ->
            IF MissingId(r) THEN afterRetrieve(r, calls[r]) ELSE confirmRetrieve(r, calls[r])
       [] variant = "part_000" -> afterRetrieve(r, calls[r])
       [] variant = "part_001" ->
            IF ~env.SHOPIFY THEN Reject(r, 400, "Missing Shopify credentials")
            ELSE IF MissingId(r) THEN afterRetrieve(r, calls[r])
            ELSE confirmRetrieve(r, calls[r])
       [] variant = "part_002a" ->
            IF MissingId(r) THEN Reject(r, 400, "missing payment id")
            ELSE confirmRetrieve(r, calls[r])
       [] variant = "part_002b" ->
            IF MissingId(r) THEN Reject(r, 400, "Missing payment id")
            ELSE IF ~env.SHOPIFY THEN Reject(r, 400, "Missing Shopify credentials")
            ELSE confirmRetrieve(r, calls[r])
       [] variant = "server_cjs" ->
            IF MissingId(r) THEN Reject(r, 400, "missing_payment_id") ELSE gate(r)

\* a retrieve step without the `pi.status !== 'succeeded'` test
PiRetrieveUnchecked(r) ==
  /\ pc[r] = "await_pi_retrieve"
  /\ \E st \in PiStatuses \cup {"throw"} :
       IF st = "throw"
       THEN afterRetrieve(r, Returned(calls[r], "throw", "", <<>>))
       ELSE afterRetrieve(r, Returned(calls[r], "ok", st, <<>>))

\* a retrieve step that looks up whether another request already ordered for the id
PiRetrieveDedup(r) ==
  /\ pc[r] = "await_pi_retrieve"
  /\ \E st \in PiStatuses \cup {"throw"} :
       IF st = "throw"
       THEN Finish(r, Returned(calls[r], "throw", "", <<>>), loc[r],
                   catchResp(variant, "confirm"))
       ELSE IF st # "succeeded"
       THEN Finish(r, Returned(calls[r], "ok", st, <<>>), loc[r], notSucceeded(variant))
       ELSE IF \E q \in Reqs \ {r} :
                 /\ body[q].stripe_payment_intent_id = body[r].stripe_payment_intent_id
                 /\ \E i \in 1..Len(calls[q]) : calls[q][i].api = "order_create"
       THEN Finish(r, Returned(calls[r], "ok", st, <<>>), loc[r], confirmOk(loc[r]))
       ELSE afterRetrieve(r, Returned(calls[r], "ok", st, <<>>))

\* stripe.paymentIntents.retrieve returns a status or throws
PiRetrieveReturns(r) ==
  /\ pc[r] = "await_pi_retrieve"
  /\ \E st \in PiStatuses \cup {"throw"} :
       IF st = "throw"
       THEN IF variant = "part_001"      \* the inner catch only logs
            THEN afterRetrieve(r, Returned(calls[r], "throw", "", <<>>))
            ELSE Finish(r, Returned(calls[r], "throw", "", <<>>), loc[r],
                        catchResp(variant, "confirm"))
       ELSE IF st # "succeeded"
       THEN Finish(r, Returned(calls[r], "ok", st, <<>>), loc[r], notSucceeded(variant))
       ELSE afterRetrieve(r, Returned(calls[r], "ok", st, <<>>))

\* an order step that goes on to the next order whatever the call's outcome
OrderReturnsGoesOn(r) ==
  /\ pc[r] = "await_order"
  /\ \E out \in {"ok", "throw"} :
       submit(r, Returned(calls[r], out, "", <<>>),
              created(variant, loc[r], calls[r][Len(calls[r])].financial_status),
              loc[r].orders)

\* an order step that answers ok with what was created so far when the call fails
OrderReturnsPartialOk(r) ==
  /\ pc[r] = "await_order"
  /\ \E out \in {"ok", "throw"} :
       IF out = "throw"
       THEN Finish(r, Returned(calls[r], out, "", <<>>), loc[r], confirmOk(loc[r]))
       ELSE submit(r, Returned(calls[r], out, "", <<>>),
                   created(variant, loc[r], calls[r][Len(calls[r])].financial_status),
                   loc[r].orders)

\* the order POST to Shopify returns or throws
OrderReturns(r) ==
  /\ pc[r] = "await_order"
  /\ \E out \in {"ok", "throw"} :
       IF out = "throw"
       THEN Finish(r, Returned(calls[r], out, "", <<>>), loc[r], catchResp(variant, ep[r]))
       ELSE submit(r, Returned(calls[r], out, "", <<>>),
                   created(variant, loc[r], calls[r][Len(calls[r])].financial_status),
                   loc[r].orders)

\* a pay-on-delivery request for a cart of up to MaxItems lines
ReceiveCod(r) ==
  /\ pc[r] = "idle" /\ variant \in CodVariants
  /\ \E em \in EmailsOf(variant), items \in ItemsField(ListsOver(ConfirmItems, MaxItems)) :
    Receive(r, "cod", [stripe_payment_intent_id |-> "", email |-> em, items |-> items])

\* the handler up to its first await
CodBegin(r) ==
  /\ pc[r] = "start" /\ ep[r] = "cod"
  /\ IF variant = "server_cjs" THEN gate(r)
     ELSE IF ~env.SHOPIFY THEN Reject(r, 400, "Missing Shopify credentials")
     ELSE codSubmit(r, calls[r])

InitCod == Init /\ variant \in CodVariants

NextCod ==
  \E r \in {"r1"} :
    \/ ReceiveCod(r)
    \/ CodBegin(r)
    \/ CustomerSearchReturns(r)
    \/ OrderReturns(r)

SpecCod == InitCod /\ [][NextCod]_vars

\* server.cjs: a request to one of the three gated routes, with a cart of at most one line
ReceiveGated(r) ==
  /\ pc[r] = "idle" /\ variant = "server_cjs"
  /\ \E route \in {"create", "confirm", "cod"}, id \in {"", PiId}, em \in Emails,
        items \in ItemsField(ListsOver(ConfirmItems, 1)) :
       /\ id = PiId => route = "confirm"
       /\ Receive(r, route, [stripe_payment_intent_id |-> id, email |-> em, items |-> items])

InitGated == Init /\ variant = "server_cjs"

NextGate ==
  \E r \in {"r1"} :
    \/ ReceiveGated(r)
    \/ CreateBegin(r)
    \/ ConfirmBegin(r)
    \/ CodBegin(r)
    \/ CustomerSearchReturns(r)
    \/ PiCreateReturns(r)
    \/ PiRetrieveReturns(r)
    \/ OrderReturns(r)

SpecGate == InitGated /\ [][NextGate]_vars

(* -------------------------- POST /stripe/webhook ------------------------ *)
HookVariants == {"part_002b", "server_cjs"}
EventTypes == {"payment_intent.succeeded", "payment_intent.payment_failed", "charge.refunded"}
ContentTypes == {"application/json", "text/plain"}

\* a notification: its content type, whether the stripe-signature header matches the
\* bytes sent under WEBHOOK_SECRET, whether those bytes are JSON, and the event they carry
HookBodies ==
  [content_type : ContentTypes, signed : BOOLEAN, payload_json : BOOLEAN,
   type : EventTypes, orderId : BOOLEAN]

\* the body parsers a webhook request passes, in the order they were registered
Pipeline(v) == IF v = "part_002b" THEN <<"json", "raw">> ELSE <<"raw">>

\* one body parser: it leaves alone a body already parsed or of another content type
parse(kind, b, rb) ==
  IF rb # "unread" \/ b.content_type # "application/json" THEN rb
  ELSE IF kind = "raw" THEN "buffer"
  ELSE IF b.payload_json THEN "object"
  ELSE "parse_error"

RECURSIVE runParsers(_, _, _, _)
runParsers(ps, i, b, rb) ==
  IF i > Len(ps) \/ rb = "parse_error" THEN rb
  ELSE runParsers(ps, i + 1, b, parse(ps[i], b, rb))

\* req.body as the route handler finds it
reqBody(v, b) == runParsers(Pipeline(v), 1, b, "unread")

\* a verification that accepts any header
constructEventAnySig(b, rb) == rb = "buffer" /\ b.payload_json

\* stripe.webhooks.constructEvent(req.body, sig, WEBHOOK_SECRET) returns an event
constructEvent(b, rb) == rb = "buffer" /\ b.signed /\ b.payload_json

HookLoc(rb, verified, handler) == [req_body |-> rb, verified |-> verified, handler |-> handler]

\* res.json({ received: true, eventType, id })
Received == [NoResp EXCEPT !.sent = TRUE, !.status = 200, !.received = TRUE]

\* a success handler that updates an order whether or not the metadata names one
handlePaymentSuccessAnyOrder(r, rb) ==
  /\ pc' = [pc EXCEPT ![r] = "await_update"]
  /\ calls' = [calls EXCEPT ![r] = Append(@, Call("order_update", Undef, Undef, "paid", <<>>))]
  /\ loc' = [loc EXCEPT ![r] = HookLoc(rb, TRUE, "handlePaymentSuccess")]
  /\ resp' = [resp EXCEPT ![r] = Received]
  /\ UNCHANGED <<variant, env, ep, body>>

\* handlePaymentSuccess up to its await; the route answers without waiting for it
handlePaymentSuccess(r, rb) ==
  IF env.SHOPIFY /\ body[r].orderId
  THEN /\ pc' = [pc EXCEPT ![r] = "await_update"]
       /\ calls' = [calls EXCEPT ![r] = Append(@, Call("order_update", Undef, Undef, "paid", <<>>))]
       /\ loc' = [loc EXCEPT ![r] = HookLoc(rb, TRUE, "handlePaymentSuccess")]
       /\ resp' = [resp EXCEPT ![r] = Received]
       /\ UNCHANGED <<variant, env, ep, body>>
  ELSE Finish(r, calls[r], HookLoc(rb, TRUE, "handlePaymentSuccess"), Received)

\* handlePaymentFailure only logs
handlePaymentFailure(r, rb) ==
  Finish(r, calls[r], HookLoc(rb, TRUE, "handlePaymentFailure"), Received)

\* the route handler, given the req.body the parsers left
webhook(r, rb) ==
  IF ~constructEvent(body[r], rb)
  THEN Finish(r, calls[r], HookLoc(rb, FALSE, ""), ErrorResp(400, "none", "Webhook Error"))
  ELSE CASE body[r].type = "payment_intent.succeeded" -> handlePaymentSuccess(r, rb)
         [] body[r].type = "payment_intent.payment_failed" -> handlePaymentFailure(r, rb)
         [] OTHER -> Finish(r, calls[r], HookLoc(rb, TRUE, ""), Received)

ReceiveHook(r) ==
  /\ pc[r] = "idle" /\ variant \in HookVariants
  /\ \E b \in HookBodies :
       /\ pc' = [pc EXCEPT ![r] = "start"]
       /\ ep' = [ep EXCEPT ![r] = "webhook"]
       /\ body' = [body EXCEPT ![r] = b]
       /\ UNCHANGED <<variant, env, loc, calls, resp>>

\* the parsers and the route handler; a body the JSON parser cannot parse is
\* answered by Express's error handler and the route handler is not reached
HookBegin(r) ==
  /\ pc[r] = "start" /\ ep[r] = "webhook"
  /\ IF reqBody(variant, body[r]) = "parse_error"
     THEN Finish(r, calls[r], HookLoc("parse_error", FALSE, ""),
                 ErrorResp(400, "none", "entity.parse.failed"))
     ELSE webhook(r, reqBody(variant, body[r]))

\* the order update returns or throws; handlePaymentSuccess catches and logs
OrderUpdateReturns(r) ==
  /\ pc[r] = "await_update"
  /\ \E out \in {"ok", "throw"} :
       /\ pc' = [pc EXCEPT ![r] = "done"]
       /\ calls' = [calls EXCEPT ![r] = Returned(@, out, "", <<>>)]
       /\ UNCHANGED <<variant, env, ep, body, loc, resp>>

InitHook == Init /\ variant \in HookVariants

NextHook ==
  \E r \in {"r1"} :
    \/ ReceiveHook(r)
    \/ HookBegin(r)
    \/ OrderUpdateReturns(r)

SpecHook == InitHook /\ [][NextHook]_vars

(* ------------------------- two requests in flight ----------------------- *)
\* well-formed card and cod lines
ConcItems == {it \in ConfirmItems : it.variant_id = Num(1) /\ it.qty = Num(1)
                                     /\ it.pay_method \in {"card", "cod"}}

\* a confirmation of a cart of well-formed lines
ReceiveConc(r) ==
  /\ pc[r] = "idle"
  /\ \E id \in {"", PiId}, list \in ListsOver(ConcItems, MaxItems) :
       Receive(r, "confirm", [stripe_payment_intent_id |-> id, email |-> "a@shop.test",
                              items |-> [kind |-> "array", list |-> list]])

\* every handler step of every request may be the next to run
NextConc ==
  \E r \in Reqs :
    \/ ReceiveConc(r)
    \/ ConfirmBegin(r)
    \/ PiRetrieveReturns(r)
    \/ OrderReturns(r)

SpecConc == InitNoTag /\ [][NextConc]_vars

(* ------------------ confirm: the retrieved authorization ---------------- *)
\* pi.amount of the authorization that stripe.paymentIntents.retrieve returns
AuthAmounts == {Num(i) : i \in 1..MaxCents}
WithAmount(cl, amt) == [cl EXCEPT ![Len(cl)].amount = amt]

\* the handler from the return of the retrieve call on
afterStatus(r, st, cl) ==
  IF st = "throw"
  THEN IF variant = "part_001" THEN afterRetrieve(r, cl)
       ELSE Finish(r, cl, loc[r], catchResp(variant, "confirm"))
  ELSE IF st # "succeeded" THEN Finish(r, cl, loc[r], notSucceeded(variant))
  ELSE afterRetrieve(r, cl)

\* the retrieve call returns an authorization with a status and an amount, or throws
PiRetrieveReturnsAmount(r) ==
  /\ pc[r] = "await_pi_retrieve"
  /\ \/ afterStatus(r, "throw", Returned(calls[r], "throw", "", <<>>))
     \/ \E st \in PiStatuses, amt \in AuthAmounts :
          afterStatus(r, st, WithAmount(Returned(calls[r], "ok", st, <<>>), amt))

NextBacked ==
  \E r \in {"r1"} :
    \/ ReceiveConc(r)
    \/ ConfirmBegin(r)
    \/ PiRetrieveReturnsAmount(r)
    \/ OrderReturns(r)

SpecBacked == InitNoTag /\ [][NextBacked]_vars

NextConfirm ==
  \E r \in {"r1"} :
    \/ ReceiveConfirm(r)
    \/ ConfirmBegin(r)
    \/ CustomerSearchReturns(r)
    \/ PiRetrieveReturns(r)
    \/ OrderReturns(r)

SpecConfirm == Init /\ [][NextConfirm]_vars

NextCreate ==
  \E r \in {"r1"} :
    \/ ReceiveCreate(r)
    \/ CreateBegin(r)
    \/ PiCreateReturns(r)

SpecCreate == InitNoTag /\ [][NextCreate]_vars

NextItem ==
  \E r \in {"r1"} :
    \/ ReceiveCreateOne(r)
    \/ CreateBegin(r)
    \/ PiCreateReturns(r)

SpecItem == InitNoTag /\ [][NextItem]_vars

(* =============================== claims ================================= *)
Done(r) == pc[r] = "done"
IsCreate(r) == ep[r] = "create"
ItemsOf(r) == body[r].items.list
CallsOf(r, api) == SelectSeq(calls[r], LAMBDA c : c.api = api)
NoCall(r, api) == Len(CallsOf(r, api)) = 0
GateRejected(r) == resp[r].status = 403

\* the subtotal of an item as the specification words it: the explicit line total,
\* else unit price x quantity, else legacy unit price x quantity
Present(x) == x.t = "num"
statedSubtotal(it) ==
  IF Present(it.line_total_cents) THEN it.line_total_cents
  ELSE IF Present(it.unit_price_cents) THEN Mul(it.unit_price_cents, it.qty)
  ELSE Mul(it.price_cents, it.qty)
NonNegative(x) == Present(x) /\ x.n >= 0
NonNegativeOrAbsent(x) == x.t = "undef" \/ NonNegative(x)
PricedItem(it) ==
  /\ NonNegative(it.qty)
  /\ NonNegativeOrAbsent(it.line_total_cents)
  /\ NonNegativeOrAbsent(it.unit_price_cents)
  /\ NonNegativeOrAbsent(it.price_cents)
  /\ Present(it.line_total_cents) \/ Present(it.unit_price_cents) \/ Present(it.price_cents)

\* C4 (as claimed): for items with non-negative integer prices and quantities and any
\* pay_method, the reported card_cents + cod_cents is the sum of all item subtotals.
C4_Conservation ==
  \A r \in Reqs :
    (/\ Done(r) /\ IsCreate(r) /\ resp[r].has_amounts
     /\ \A i \in 1..Len(ItemsOf(r)) : PricedItem(ItemsOf(r)[i]))
    => Add(resp[r].card_cents, resp[r].cod_cents) = SumSeq(ItemsOf(r), statedSubtotal)

\* C5 (as claimed): whenever POST /checkout/create calls the processor, the amount is
\* the pay-now total and equals amounts.card_cents, and the pay-on-delivery total is
\* attached as metadata and equals amounts.cod_cents.
C5_AmountAndMetadata ==
  \A r \in Reqs : \A i \in 1..Len(calls[r]) :
    (IsCreate(r) /\ calls[r][i].api = "pi_create")
    => /\ calls[r][i].amount = loc[r].card_cents
       /\ Present(calls[r][i].meta_cod)
       /\ calls[r][i].meta_cod = loc[r].cod_cents
       /\ (Done(r) /\ resp[r].has_amounts)
            => /\ resp[r].card_cents = calls[r][i].amount
               /\ resp[r].cod_cents = calls[r][i].meta_cod

\* an item none of whose price fields resolves to a finite non-negative number
ResolvesNonNegative(x) == isFinite(Number(x)) /\ Number(x).n >= 0
NoUsablePrice(it) ==
  /\ ~ResolvesNonNegative(it.line_total_cents)
  /\ ~ResolvesNonNegative(it.unit_price_cents)
  /\ ~ResolvesNonNegative(it.price_cents)
InvalidItemErrors == {"invalid_item", "Invalid item data"}

\* C6 (as claimed): an item with no usable price field always gets the request rejected
\* with an "invalid item" 4xx; it is never counted as zero and no processor call is made.
C6_NoSilentZero ==
  \A r \in Reqs :
    (IsCreate(r) /\ \E i \in 1..Len(ItemsOf(r)) : NoUsablePrice(ItemsOf(r)[i]))
    => /\ NoCall(r, "pi_create")
       /\ (Done(r) /\ ~GateRejected(r))
            => /\ resp[r].status \in 400..499
               /\ resp[r].error \in InvalidItemErrors

NoItemsErrors == {"no_items", "No items provided"}

\* C8 (as claimed): POST /checkout/create with a missing, non-array or empty items list
\* fails with a "no items" 4xx, makes no processor call and never returns ok:true.
C8_NoItems ==
  \A r \in Reqs :
    (IsCreate(r) /\ pc[r] # "idle" /\ (body[r].items.kind # "array" \/ Len(ItemsOf(r)) = 0))
    => /\ NoCall(r, "pi_create")
       /\ (Done(r) /\ ~GateRejected(r))
            => /\ resp[r].status \in 400..499
               /\ resp[r].error \in NoItemsErrors
               /\ resp[r].ok # "true"

\* a price field is usable when Number(field) is finite (null converts to 0)
Usable(x) == isFinite(Number(x))
orderedFallback(it, q) ==
  IF Usable(it.line_total_cents) THEN Number(it.line_total_cents)
  ELSE IF Usable(it.unit_price_cents) THEN MulNum(Number(it.unit_price_cents), q)
  ELSE IF Usable(it.price_cents) THEN MulNum(Number(it.price_cents), q)
  ELSE NaN
\* the quantity the handler multiplies by: the sent qty, or 1 when qty is missing or 0
effectiveQty(it) == IF Present(it.qty) /\ it.qty.n # 0 THEN it.qty ELSE Num(1)
CjsProcessed(r) ==
  /\ variant = "server_cjs" /\ IsCreate(r) /\ Done(r) /\ ~GateRejected(r)
  /\ body[r].items.kind = "array" /\ Len(ItemsOf(r)) > 0

PayMethodKnown(it) == it.pay_method \in {"card", "cod"}
WellFormed(it) == PayMethodKnown(it) /\ Truthy(it.variant_id) /\ Gt0(it.qty)
payNowTotal(items) == SumSeq(SelectSeq(items, IsCard), statedSubtotal)
NullIds(r) == resp[r].payment_intent_id = "null" /\ resp[r].client_secret = "null"
ProcessorIds(r) == resp[r].payment_intent_id = PiId /\ resp[r].client_secret = PiSecret

\* C9 (as claimed, for requests answered ok:true): for a cart of well-formed priced
\* card/cod lines the processor is called iff the pay-now total is positive; a zero
\* total gives no call and null id and secret, a positive total gives the id and secret
\* returned by the processor.
C9_CallIffPositive ==
  \A r \in Reqs :
    (/\ IsCreate(r) /\ Done(r) /\ resp[r].ok = "true"
     /\ body[r].items.kind = "array" /\ Len(ItemsOf(r)) > 0
     /\ \A i \in 1..Len(ItemsOf(r)) : PricedItem(ItemsOf(r)[i]) /\ WellFormed(ItemsOf(r)[i]))
    => /\ Gt0(payNowTotal(ItemsOf(r))) <=> ~NoCall(r, "pi_create")
       /\ payNowTotal(ItemsOf(r)) = Num(0) => NullIds(r)
       /\ Gt0(payNowTotal(ItemsOf(r))) => ProcessorIds(r)

IsConfirm(r) == ep[r] = "confirm"
Retrieved(c) == c.api = "pi_retrieve" /\ c.outcome = "ok"
RetrieveThrew(c) == c.api = "pi_retrieve" /\ c.outcome = "throw"
IsOrder(c) == c.api = "order_create"
HasCall(r, P(_)) == \E i \in 1..Len(calls[r]) : P(calls[r][i])
NotSucceeded(c) == Retrieved(c) /\ c.status # "succeeded"

\* C1: whenever the authorization retrieve of a POST /checkout/confirm returned a status
\* other than 'succeeded', the request has ended with a 4xx response and has made no
\* order-creation call.
C1_NotSucceededNoOrder ==
  \A r \in Reqs :
    (IsConfirm(r) /\ HasCall(r, NotSucceeded))
    => /\ Done(r)
       /\ resp[r].sent /\ resp[r].status \in 400..499 /\ resp[r].ok # "true"
       /\ NoCall(r, "order_create")

\* C1 witness: a cart with a card line, the retrieve returned 'processing', the request
\* ended with 400 and no order call.
C1_ProcessingRejected ==
  \E r \in Reqs :
    /\ IsConfirm(r) /\ Done(r) /\ resp[r].status = 400
    /\ Len(ItemsOf(r)) > 0 /\ IsCard(ItemsOf(r)[1])
    /\ Len(calls[r]) > 0
    /\ calls[r][Len(calls[r])].api = "pi_retrieve"
    /\ calls[r][Len(calls[r])].status = "processing"

\* C2 (as claimed): every order-creation call of a POST /checkout/confirm comes after a
\* retrieve of the same request that returned 'succeeded'.
C2_OrderOnlyAfterSucceeded ==
  \A r \in Reqs : \A i \in 1..Len(calls[r]) :
    (IsConfirm(r) /\ IsOrder(calls[r][i]))
    => \E j \in 1..(i - 1) : Retrieved(calls[r][j]) /\ calls[r][j].status = "succeeded"

\* C3 (as claimed): when the retrieve call throws, the request ends with an error
\* response and makes no order-creation call.
C3_RetrieveThrowNoOrder ==
  \A r \in Reqs :
    (IsConfirm(r) /\ HasCall(r, RetrieveThrew))
    => /\ Done(r)
       /\ resp[r].status >= 400 /\ resp[r].ok # "true"
       /\ NoCall(r, "order_create")

OrdersWith(r, fin) ==
  Len(SelectSeq(calls[r], LAMBDA c : IsOrder(c) /\ c.financial_status = fin))
HasItem(r, P(_)) == \E i \in 1..Len(ItemsOf(r)) : P(ItemsOf(r)[i])
OneIf(b) == IF b THEN 1 ELSE 0

\* C10 (as claimed): a successful POST /checkout/confirm of a cart of well-formed card/cod
\* lines made exactly one 'paid' order call iff the cart has a card line, exactly one
\* 'pending' order call iff it has a cod line, and created has paid_order / cod_order
\* exactly when that order was submitted.
C10_OneOrderPerBranch ==
  \A r \in Reqs :
    (/\ IsConfirm(r) /\ Done(r) /\ resp[r].ok = "true"
     /\ body[r].items.kind = "array"
     /\ \A i \in 1..Len(ItemsOf(r)) : WellFormed(ItemsOf(r)[i]))
    => /\ OrdersWith(r, "paid") = OneIf(HasItem(r, IsCard))
       /\ OrdersWith(r, "pending") = OneIf(HasItem(r, IsCod))
       /\ resp[r].paid_order <=> OrdersWith(r, "paid") > 0
       /\ resp[r].cod_order <=> OrdersWith(r, "pending") > 0

RECURSIVE LinesIn(_, _, _)
\* the line items of the order calls of a log that carry the given financial_status
LinesIn(cl, i, fin) ==
  IF i > Len(cl) THEN <<>>
  ELSE (IF IsOrder(cl[i]) /\ cl[i].financial_status = fin THEN cl[i].lines ELSE <<>>)
       \o LinesIn(cl, i + 1, fin)
lineKey(l) == <<Number(l.variant_id), l.quantity>>
itemKey(it) == <<Number(it.variant_id), it.qty>>

\* C11 (as claimed, for requests that submitted an order): in a successful POST
\* /checkout/confirm of a non-empty cart of well-formed card/cod lines, the line items of the
\* 'paid' orders are exactly the card items with their qty, and the line items of the
\* 'pending' orders are exactly the cod items with their qty.
C11_ItemsInTheirOrder ==
  \A r \in Reqs :
    (/\ IsConfirm(r) /\ Done(r) /\ resp[r].ok = "true" /\ HasCall(r, IsOrder)
     /\ body[r].items.kind = "array" /\ Len(ItemsOf(r)) > 0
     /\ \A i \in 1..Len(ItemsOf(r)) : WellFormed(ItemsOf(r)[i]))
    => /\ MapSeq(LinesIn(calls[r], 1, "paid"), lineKey)
            = MapSeq(SelectSeq(ItemsOf(r), IsCard), itemKey)
       /\ MapSeq(LinesIn(calls[r], 1, "pending"), lineKey)
            = MapSeq(SelectSeq(ItemsOf(r), IsCod), itemKey)

IsSearch(c) == c.api = "customer_search"
SearchDone(c) == IsSearch(c) /\ c.outcome # "pending"
\* the first record of the result whose email is the requested one lacks the tag
FirstMatchLacksTag(cs, e) ==
  \E i \in 1..Len(cs) :
    /\ cs[i].email = e /\ ~cs[i].split
    /\ \A j \in 1..(i - 1) : cs[j].email # e
NoSplitTag(cs) == \A i \in 1..Len(cs) : ~cs[i].split
LookupDenies(c, e) ==
  \/ c.outcome = "throw"
  \/ Len(c.customers) = 0
  \/ FirstMatchLacksTag(c.customers, e)
  \/ NoSplitTag(c.customers)
Refused403(r, err) ==
  /\ Done(r) /\ resp[r].sent /\ resp[r].status = 403
  /\ resp[r].ok = "false" /\ resp[r].error = err

Guarded(c) == c.api \in {"pi_create", "pi_retrieve", "order_create"}
\* the gate let the request through before its call number i
GatePassedBefore(r, i) ==
  IF env.REQUIRE_SPLIT_TAG
  THEN /\ body[r].email # ""
       /\ \E j \in 1..(i - 1) :
            /\ IsSearch(calls[r][j]) /\ calls[r][j].outcome = "ok"
            /\ ~LookupDenies(calls[r][j], body[r].email)
  ELSE ~env.REQUIRE_LOGIN \/ body[r].email # ""
GateReached(r) == pc[r] \notin {"idle", "start"} /\ ~(IsConfirm(r) /\ MissingId(r))

\* C13: in server.cjs, for /checkout/create, /checkout/confirm and /checkout/cod, a
\* request the gate rejects is answered 403 with login_required or not_authorized and
\* has made no payment-processor call and no order call; every such call is made after
\* the gate has let the request through.
C13_GateBeforeCalls ==
  \A r \in Reqs :
    variant = "server_cjs" =>
      /\ resp[r].status = 403
           => /\ resp[r].error \in {"login_required", "not_authorized"}
              /\ ~HasCall(r, Guarded)
      /\ \A i \in 1..Len(calls[r]) : Guarded(calls[r][i]) => GatePassedBefore(r, i)
      /\ (GateReached(r) /\ env.REQUIRE_LOGIN /\ body[r].email = "")
           => Refused403(r, "login_required")
      /\ (GateReached(r) /\ ~env.REQUIRE_LOGIN /\ env.REQUIRE_SPLIT_TAG /\ body[r].email = "")
           => Refused403(r, "not_authorized")
      /\ (HasCall(r, SearchDone) /\ LookupDenies(calls[r][1], body[r].email))
           => Refused403(r, "not_authorized")

\* C13 witness: a /checkout/cod request whose customer is found without the tag is
\* refused with 403 after the lookup, its only call.
C13_CodRefused ==
  \E r \in Reqs :
    /\ ep[r] = "cod" /\ Refused403(r, "not_authorized")
    /\ Len(calls[r]) = 1 /\ IsSearch(calls[r][1]) /\ calls[r][1].outcome = "ok"
    /\ Len(calls[r][1].customers) > 0
    /\ Len(ItemsOf(r)) > 0

(* ------------------------------ webhook --------------------------------- *)
IsHook(r) == ep[r] = "webhook"
Handled(r) == IsHook(r) /\ pc[r] \notin {"idle", "start"}
Tampered(r) == ~body[r].signed
ClientError(r) == resp[r].sent /\ resp[r].status \in 400..499

\* C14: a webhook request whose signature does not verify is answered with a 4xx,
\* neither handlePaymentSuccess nor handlePaymentFailure runs for it and it makes no
\* order-update call; whenever a handler ran or an order-update call was made, the
\* signature had verified.
C14_UnverifiedNoSideEffect ==
  \A r \in Reqs :
    Handled(r) =>
      /\ Tampered(r) =>
           ClientError(r) /\ loc[r].handler = "" /\ NoCall(r, "order_update")
      /\ (loc[r].handler # "" \/ ~NoCall(r, "order_update")) =>
           body[r].signed /\ loc[r].verified

\* a payment_intent.succeeded event naming an order, with a wrong signature, was
\* answered 400 by server.cjs
C14_TamperedSucceededRejected ==
  \E r \in Reqs :
    /\ variant = "server_cjs" /\ IsHook(r) /\ Done(r)
    /\ Tampered(r) /\ body[r].content_type = "application/json" /\ body[r].payload_json
    /\ body[r].type = "payment_intent.succeeded" /\ body[r].orderId
    /\ resp[r].status = 400 /\ NoCall(r, "order_update")

\* C15: the body handed to stripe.webhooks.constructEvent is the raw request body:
\* no JSON body parser has run on a webhook request before verification.
C15_RawBodyToVerification ==
  \A r \in Reqs :
    /\ Handled(r) /\ body[r].content_type = "application/json"
    /\ body[r].payload_json /\ body[r].signed
    => loc[r].req_body = "buffer"

(* --------------------------- /checkout/cod ------------------------------ *)
OnCod(r) == ep[r] = "cod"
OrderThrew(r) == \E i \in 1..Len(calls[r]) : IsOrder(calls[r][i]) /\ calls[r][i].outcome = "throw"

\* C16: a /checkout/cod request that the gate lets through and whose order call does
\* not fail, with or without items, makes no payment-processor call and exactly one
\* order-creation call, with financial_status 'pending', and is answered ok; it
\* never creates a 'paid' order.
C16_CodOnePendingOrder ==
  \A r \in Reqs :
    /\ OnCod(r) /\ Done(r) /\ ~GateRejected(r) /\ ~OrderThrew(r)
    /\ body[r].items.kind # "nonarray"
    => /\ NoCall(r, "pi_create") /\ NoCall(r, "pi_retrieve")
       /\ Len(CallsOf(r, "order_create")) = 1
       /\ OrdersWith(r, "pending") = 1 /\ OrdersWith(r, "paid") = 0
       /\ resp[r].status = 200 /\ resp[r].ok = "true"

(* ------------------- /checkout/confirm: order of calls ------------------ *)
IsPaidOrder(c) == IsOrder(c) /\ c.financial_status = "paid"
IsCodOrder(c) == IsOrder(c) /\ c.financial_status = "pending"
ErrorAnswer(r) == resp[r].sent /\ resp[r].status >= 400 /\ resp[r].ok # "true"

\* C17: within one /checkout/confirm no call is issued while an earlier one is
\* outstanding; a pay-on-delivery order call is issued only after every pay-now
\* order call of the request has returned successfully; and a pay-now order call
\* that failed is the last call of the request, which ends with an error response.
C17_Sequential ==
  \A r \in Reqs :
    IsConfirm(r) =>
      \A i \in 1..Len(calls[r]) :
        /\ i < Len(calls[r]) => calls[r][i].outcome # "pending"
        /\ \A j \in 1..Len(calls[r]) :
             IsPaidOrder(calls[r][i]) /\ IsCodOrder(calls[r][j]) =>
               i < j /\ calls[r][i].outcome = "ok"
        /\ IsPaidOrder(calls[r][i]) /\ calls[r][i].outcome = "throw" =>
             i = Len(calls[r]) /\ Done(r) /\ ErrorAnswer(r)

\* a cart with a card line and a cod line whose paid order call failed: the request
\* ended with an error and no pay-on-delivery order call
C17_PaidFailedCodNotIssued ==
  \E r \in Reqs :
    /\ IsConfirm(r) /\ Done(r) /\ ErrorAnswer(r)
    /\ HasItem(r, IsCard) /\ HasItem(r, IsCod)
    /\ \E i \in 1..Len(calls[r]) : IsPaidOrder(calls[r][i]) /\ calls[r][i].outcome = "throw"
    /\ OrdersWith(r, "pending") = 0

\* the i-th call created the paid order and the j-th, the pay-on-delivery order call, failed
PartialFailure(r, i, j) ==
  /\ i < j
  /\ IsPaidOrder(calls[r][i]) /\ calls[r][i].outcome = "ok"
  /\ IsCodOrder(calls[r][j]) /\ calls[r][j].outcome = "throw"

\* C18: when the paid order has been created and the pay-on-delivery order call then
\* fails, the request ends with an error response that is not ok:true, and the failed
\* call is the last external call of the request: nothing cancels, deletes or refunds
\* the paid order.
C18_PartialFailureNotRolledBack ==
  \A r \in Reqs :
    IsConfirm(r) =>
      \A i, j \in 1..Len(calls[r]) :
        PartialFailure(r, i, j) =>
          /\ Done(r) /\ ErrorAnswer(r)
          /\ j = Len(calls[r])
          /\ \A k \in 1..Len(calls[r]) :
               calls[r][k].api \in {"customer_search", "pi_retrieve", "order_create"}

\* a request whose paid order was created and whose pay-on-delivery order call threw
C18_PaidStandsCodFailed ==
  \E r \in Reqs :
    /\ IsConfirm(r) /\ Done(r) /\ ErrorAnswer(r)
    /\ \E i, j \in 1..Len(calls[r]) : PartialFailure(r, i, j)
    /\ OrdersWith(r, "paid") = 1

(* ------------------------------ no retries ------------------------------ *)
AtMostOnce(r, api) == Len(CallsOf(r, api)) <= 1

\* C19: within one request the authorization create, the authorization retrieve, the
\* customer search and the order creation of each branch are each issued at most
\* once, and a call that failed is the last call of its request, which ends with an
\* error response.
C19_NoRetryFirstFailureEnds ==
  \A r \in Reqs :
    /\ AtMostOnce(r, "pi_create") /\ AtMostOnce(r, "pi_retrieve")
    /\ AtMostOnce(r, "customer_search")
    /\ OrdersWith(r, "paid") <= 1 /\ OrdersWith(r, "pending") <= 1
    /\ \A i \in 1..Len(calls[r]) :
         calls[r][i].outcome = "throw" =>
           i = Len(calls[r]) /\ Done(r) /\ ErrorAnswer(r)

(* ----------------------------- concurrency ------------------------------ *)
\* what a call asked for, and what came back
Asked(c) == <<c.api, c.amount, c.meta_cod, c.financial_status, c.lines>>
Outcome(c) == <<c.outcome, c.status, c.customers>>
SameRequest(r, q) == pc[r] # "idle" /\ pc[q] # "idle" /\ ep[r] = ep[q] /\ body[r] = body[q]
\* the first n calls of r and q came back alike
AgreeUpTo(r, q, n) ==
  /\ n <= Len(calls[r]) /\ n <= Len(calls[q])
  /\ \A k \in 1..n : Outcome(calls[r][k]) = Outcome(calls[q][k])
OrderCreated(r) == \E i \in 1..Len(calls[r]) : IsOrder(calls[r][i]) /\ calls[r][i].outcome = "ok"

\* C20: what a request does depends only on its own body and on what its own calls
\* returned, however its steps interleave with another request's: two requests with
\* the same body whose calls so far returned alike issue the same next call, neither
\* stops where the other goes on, and once both have finished with the same calls
\* they have the same response. In particular a second confirmation for an
\* authorization id is not treated differently from the first.
C20_Independent ==
  \A r, q \in Reqs :
    SameRequest(r, q) =>
      /\ \A n \in 0..Len(calls[r]) :
           AgreeUpTo(r, q, n) =>
             /\ (n < Len(calls[r]) /\ n < Len(calls[q])) =>
                  Asked(calls[r][n + 1]) = Asked(calls[q][n + 1])
             /\ (n = Len(calls[r]) /\ Done(r)) => n = Len(calls[q])
      /\ (Done(r) /\ Done(q) /\ calls[r] = calls[q]) => resp[r] = resp[q]

\* two confirmations of the same non-empty cart for the same succeeded id were both
\* answered ok, and each created an order of its own
C20_DuplicateOrders ==
  /\ SameRequest("r1", "r2") /\ IsConfirm("r1")
  /\ body["r1"].stripe_payment_intent_id = PiId /\ Len(ItemsOf("r1")) > 0
  /\ \A r \in Reqs :
       /\ Done(r) /\ resp[r].ok = "true" /\ OrderCreated(r)
       /\ \E i \in 1..Len(calls[r]) : Retrieved(calls[r][i]) /\ calls[r][i].status = "succeeded"

(* ------------------------ webhook: order update ------------------------- *)
Verified(r) == Handled(r) /\ loc[r].verified
NamesOrder(r) == body[r].type = "payment_intent.succeeded" /\ body[r].orderId

\* C21: for a verified webhook event exactly one order-update call is issued when the
\* event is payment_intent.succeeded and its metadata carries an orderId, and none
\* otherwise; the response is 'received' with status 200 whether the update call is
\* still outstanding, has succeeded or has failed.
C21_UpdateIffSucceededWithOrderId ==
  \A r \in Reqs :
    Verified(r) =>
      /\ Len(CallsOf(r, "order_update")) = OneIf(NamesOrder(r))
      /\ Len(calls[r]) = Len(CallsOf(r, "order_update"))
      /\ resp[r].sent /\ resp[r].status = 200 /\ resp[r].received

\* a verified payment_intent.succeeded event with an orderId whose update call threw
\* was answered 'received'
C21_UpdateFailedStillReceived ==
  \E r \in Reqs :
    /\ Verified(r) /\ Done(r) /\ NamesOrder(r)
    /\ \E i \in 1..Len(calls[r]) :
         calls[r][i].api = "order_update" /\ calls[r][i].outcome = "throw"
    /\ resp[r].status = 200 /\ resp[r].received

(* --------------------- confirm: paid order and amount ------------------- *)
\* the amount of the succeeded authorization the request retrieved covers x
AuthorizedAtLeast(r, x) ==
  \E i \in 1..Len(calls[r]) :
    /\ Retrieved(calls[r][i]) /\ calls[r][i].status = "succeeded"
    /\ Present(x) /\ x.n <= calls[r][i].amount.n

\* C22: a request to /checkout/confirm that retrieved a succeeded authorization
\* creates a 'paid' order only when that authorization covers the pay-now total of
\* the items of the confirm request: no paid order call is made for card items worth
\* more than the authorized amount.
C22_PaidOrderBacked ==
  \A r \in Reqs :
    IsConfirm(r) /\ OrdersWith(r, "paid") > 0 /\ AuthorizedAtLeast(r, Num(0)) =>
      AuthorizedAtLeast(r, payNowTotal(ItemsOf(r)))

(* ----------------------- create: negative numbers ----------------------- *)
NumberOrAbsent(x) == x.t \in {"num", "undef"}
\* an item whose quantity is a number and whose price fields are numbers or absent,
\* at least one of them present
NumericItem(it) ==
  /\ PayMethodKnown(it) /\ Truthy(it.variant_id) /\ Present(it.qty)
  /\ NumberOrAbsent(it.line_total_cents) /\ NumberOrAbsent(it.unit_price_cents)
  /\ NumberOrAbsent(it.price_cents)
  /\ Present(it.line_total_cents) \/ Present(it.unit_price_cents) \/ Present(it.price_cents)

\* C23: a /checkout/create request whose items carry numeric quantities and prices,
\* negative ones included, is either rejected or answered with card_cents and
\* cod_cents that are non-negative integers, and any amount sent to the processor is
\* a non-negative integer.
C23_TotalsNonNegative ==
  \A r \in Reqs :
    /\ IsCreate(r) /\ Done(r) /\ resp[r].status = 200 /\ resp[r].has_amounts
    /\ \A i \in 1..Len(ItemsOf(r)) : NumericItem(ItemsOf(r)[i])
    => /\ NonNegative(resp[r].card_cents) /\ NonNegative(resp[r].cod_cents)
       /\ \A k \in 1..Len(calls[r]) :
            calls[r][k].api = "pi_create" => NonNegative(calls[r][k].amount)

(* ------------------------- gate: whose tag counts ----------------------- *)
\* a record of the lookup result for the requested email carries the 'split' tag
OwnRecordTagged(cs, e) == \E j \in 1..Len(cs) : cs[j].email = e /\ cs[j].split

\* C24: when the split tag is required, a request gets past isCustomerAllowed only if
\* the lookup returned a record whose email is the requested email and which carries
\* the 'split' tag; the tags of another customer in the result do not let it through.
C24_OnlyOwnTagAuthorizes ==
  \A r \in Reqs :
    \A i \in 1..Len(calls[r]) :
      SearchDone(calls[r][i]) /\ ~GateRejected(r) =>
        OwnRecordTagged(calls[r][i].customers, loc[r].email)

====
